---------------------------- MODULE Spec2Model ----------------------------
(***************************************************************************)
(* The "function factory" of src/function_factory.jsx: a template          *)
(* registry, a preset registry, the placeholder substitution loop and the  *)
(* React component FunctionFactory that holds the session (selected        *)
(* template, field values, generated output, "copied" flag).               *)
(*                                                                         *)
(* Strings are TLA+ strings, handled character by character with Len,      *)
(* SubSeq and \o.  The six non-ASCII glyphs of the benchmark_case body are *)
(* written "?", one per character.                                         *)
(***************************************************************************)
EXTENDS Integers, Sequences, FiniteSets, TLC

(***************************************************************************)
(* Bounds of the model.                                                    *)
(***************************************************************************)
\* at most this many entries in the field-value mapping
MaxFields == 2
\* at most this many acknowledgement resets pending at once
MaxPending == 2
\* the fields of the form, counted from the first, that are typed into
MaxShownFields == 2

(***************************************************************************)
(* const TEMPLATES = { ... }                                               *)
(***************************************************************************)
\* a registry whose template uses a field its list does not name
TEMPLATES_missingField ==
    [pyfunction_simple |->
        [name |-> "Simple PyFunction",
         template |-> "fn {fn_name}(value: {input_type}) {{\n    {body}\n}}",
         fields |-> <<"fn_name", "body">>]]

TEMPLATES ==
    [pyfunction_simple |->
        [name |-> "Simple PyFunction",
         template |->
            "/// {description}\n" \o
            "/// humanize.{fn_name}({example_input}) -> \"{example_output}\"\n" \o
            "#[pyfunction]\n" \o
            "fn {fn_name}(value: {input_type}) -> {output_type} {{\n" \o
            "    {body}\n" \o
            "}}",
         fields |-> <<"fn_name", "description", "example_input", "example_output", "input_type", "output_type", "body">>],

     pyfunction_with_options |->
        [name |-> "PyFunction with Options",
         template |->
            "/// {description}\n" \o
            "/// humanize.{fn_name}({example_input}) -> \"{example_output}\"\n" \o
            "#[pyfunction]\n" \o
            "#[pyo3(signature = (value, {option_params}))]\n" \o
            "fn {fn_name}(value: {input_type}, {rust_params}) -> {output_type} {{\n" \o
            "    {body}\n" \o
            "}}",
         fields |-> <<"fn_name", "description", "example_input", "example_output", "input_type", "output_type", "option_params", "rust_params", "body">>],

     format_parser |->
        [name |-> "Format String Parser (reusable block)",
         template |->
            "// Parse format string for precision\n" \o
            "let precision = if fmt.contains('.') {{\n" \o
            "    fmt.chars()\n" \o
            "        .skip_while(|c| *c != '.')\n" \o
            "        .skip(1)\n" \o
            "        .take_while(|c| c.is_ascii_digit())\n" \o
            "        .collect::<String>()\n" \o
            "        .parse::<usize>()\n" \o
            "        .unwrap_or({default_precision})\n" \o
            "}} else {{\n" \o
            "    {default_precision}\n" \o
            "}};",
         fields |-> <<"default_precision">>],

     suffix_lookup |->
        [name |-> "Suffix Lookup Table",
         template |->
            "const {const_name}: &[&str] = &[{suffixes}];",
         fields |-> <<"const_name", "suffixes">>],

     threshold_match |->
        [name |-> "Threshold Match Block",
         template |->
            "let (divisor, suffix): (f64, &str) = {thresholds}\n" \o
            "    else {{\n" \o
            "        return {fallback};\n" \o
            "    }};",
         fields |-> <<"thresholds", "fallback">>],

     benchmark_case |->
        [name |-> "Benchmark Test Case",
         template |->
            "# {fn_name} benchmark\n" \o
            "py = benchmark(\"{fn_name}\", lambda: humanize.{fn_name}({test_value}))\n" \o
            "rs = benchmark(\"{fn_name}\", lambda: humanize_rs.{fn_name}({test_value}))\n" \o
            "print_comparison(py, rs)\n" \o
            "\n" \o
            "py_result = humanize.{fn_name}({test_value})\n" \o
            "rs_result = humanize_rs.{fn_name}({test_value})\n" \o
            "print(f\"  Python output: {{py_result}}\")\n" \o
            "print(f\"  Rust output:   {{rs_result}}\")\n" \o
            "print(f\"  Match: {{'???' if py_result == rs_result else '???'}}\")",
         fields |-> <<"fn_name", "test_value">>],

     module_registration |->
        [name |-> "Module Function Registration",
         template |->
            "m.add_function(wrap_pyfunction!({fn_name}, m)?)?;",
         fields |-> <<"fn_name">>]]

(***************************************************************************)
(* const PRESETS = { ... }                                                 *)
(***************************************************************************)
PRESETS ==
    [intcomma |->
        [template |-> "pyfunction_with_options",
         values |->
            [fn_name |->
                "intcomma",
             description |->
                "Format a number with comma separators",
             example_input |->
                "1000000",
             example_output |->
                "1,000,000",
             input_type |->
                "i64",
             output_type |->
                "String",
             option_params |->
                "ndigits=None",
             rust_params |->
                "ndigits: Option<i32>",
             body |->
                "match ndigits {\n" \o
                "        Some(n) if n > 0 => {\n" \o
                "            let factor = 10_f64.powi(n);\n" \o
                "            let rounded = (value as f64 / factor).round() * factor;\n" \o
                "            (rounded as i64).to_formatted_string(&Locale::en)\n" \o
                "        }\n" \o
                "        _ => value.to_formatted_string(&Locale::en),\n" \o
                "    }"]],

     ordinal |->
        [template |-> "pyfunction_simple",
         values |->
            [fn_name |->
                "ordinal",
             description |->
                "Convert a number to its ordinal form",
             example_input |->
                "3",
             example_output |->
                "3rd",
             input_type |->
                "i64",
             output_type |->
                "String",
             body |->
                "let suffix = match (value % 10, value % 100) {\n" \o
                "        (1, 11) => \"th\",\n" \o
                "        (2, 12) => \"th\",\n" \o
                "        (3, 13) => \"th\",\n" \o
                "        (1, _) => \"st\",\n" \o
                "        (2, _) => \"nd\",\n" \o
                "        (3, _) => \"rd\",\n" \o
                "        _ => \"th\",\n" \o
                "    };\n" \o
                "    format!(\"{}{}\", value.to_formatted_string(&Locale::en), suffix)"]],

     naturalsize |->
        [template |-> "pyfunction_with_options",
         values |->
            [fn_name |->
                "naturalsize",
             description |->
                "Convert a file size to human readable form",
             example_input |->
                "1048576",
             example_output |->
                "1.0 MB",
             input_type |->
                "i64",
             output_type |->
                "String",
             option_params |->
                "binary=false, gnu=false, format_str=None",
             rust_params |->
                "binary: bool, gnu: bool, format_str: Option<&str>",
             body |->
                "// See full implementation"]]]

(***************************************************************************)
(* JavaScript strings.                                                     *)
(***************************************************************************)
Min(S) == CHOOSE x \in S : \A y \in S : x <= y

\* the first index >= from at which pat occurs in str, 0 when there is none
IndexOf(str, pat, from) ==
    LET hits == {p \in from..(Len(str) - Len(pat) + 1) :
                    SubSeq(str, p, p + Len(pat) - 1) = pat}
    IN  IF hits = {} THEN 0 ELSE Min(hits)

Contains(str, pat) == IndexOf(str, pat, 1) # 0

\* String.prototype.replace expands the replacement string for one match:
\* $$ is a dollar sign, $& the matched text, $' the text after the match;
\* the pattern has no capture group, so any other character after a dollar
\* sign leaves both characters as they are.  (A dollar sign followed by a
\* grave accent stands for the text before the match; a string of this
\* module cannot hold a grave accent, and no string of the model has one.)
RECURSIVE GetSubstitution(_, _, _, _, _)
GetSubstitution(matched, str, position, replacement, from) ==
    LET d == IndexOf(replacement, "$", from) IN
    IF d = 0 THEN SubSeq(replacement, from, Len(replacement))
    ELSE LET c == IF d < Len(replacement)
                     THEN SubSeq(replacement, d + 1, d + 1) ELSE ""
             expansion ==
                 CASE c = "$" -> "$"
                   [] c = "&" -> matched
                   [] c = "'" -> SubSeq(str, position + Len(matched), Len(str))
                   [] OTHER   -> "$"
             next == IF c \in {"$", "&", "'"} THEN d + 2 ELSE d + 1
         IN  SubSeq(replacement, from, d - 1) \o expansion
                 \o GetSubstitution(matched, str, position, replacement, next)

\* str.replace(new RegExp(pat, 'g'), replacement) for a pattern that matches
\* the literal text pat: every non-overlapping match, left to right
\* the positions of the matches of pat in str, which cannot overlap
Matches(str, pat) ==
    {p \in 1..(Len(str) - Len(pat) + 1) : SubSeq(str, p, p + Len(pat) - 1) = pat}

RECURSIVE ReplaceFrom(_, _, _, _, _)
ReplaceFrom(str, pat, replacement, from, ms) ==
    IF ms = {} THEN SubSeq(str, from, Len(str))
    ELSE LET p == Min(ms) IN
         SubSeq(str, from, p - 1)
             \o GetSubstitution(pat, str, p, replacement, 1)
             \o ReplaceFrom(str, pat, replacement, p + Len(pat), ms \ {p})

\* the same call without the g flag: only the first match is replaced
ReplaceAll_firstMatchOnly(str, pat, replacement) ==
    LET p == IndexOf(str, pat, 1) IN
    IF p = 0 THEN str
    ELSE SubSeq(str, 1, p - 1)
             \o GetSubstitution(pat, str, p, replacement, 1)
             \o SubSeq(str, p + Len(pat), Len(str))

\* the same call with a pattern that lacks the closing brace
ReplaceAll_openBraceOnly(str, pat, replacement) ==
    LET open == SubSeq(pat, 1, Len(pat) - 1) IN
    ReplaceFrom(str, open, replacement, 1, Matches(str, open))

ReplaceAll(str, pat, replacement) ==
    ReplaceFrom(str, pat, replacement, 1, Matches(str, pat))

\* the pattern without its braces: the bare field name
Token_bareName(field) == field

\* the text that the pattern \{field\} of generateOutput matches
Token(field) == "{" \o field \o "}"

\* the marker of an unset field: the field name in angle brackets
Marker(field) == "<" \o field \o ">"

\* useState({}): no field has a value
EmptyValues == [f \in {} |-> ""]

\* the two sides of || swapped: the marker always wins
ValueOrMarker_markerFirst(values, field) == Marker(field)

\* values[field] ?? marker: the marker only for a field that has no entry
ValueOrMarker_absentOnly(values, field) ==
    IF field \in DOMAIN values THEN values[field] ELSE Marker(field)

\* values[field] || marker
ValueOrMarker(values, field) ==
    IF field \in DOMAIN values /\ values[field] # ""
    THEN values[field] ELSE Marker(field)

(***************************************************************************)
(* The session: the state of the component FunctionFactory.                *)
(***************************************************************************)
VARIABLES
    selectedTemplate,   \* key of the selected template
    fieldValues,        \* field name -> string
    fieldValuesRef,     \* the object fieldValues refers to: "own" for an object
                        \* made by the component, or the key of the preset
                        \* whose values object it is (setFieldValues(preset.values))
    output,             \* the generated text
    copied,             \* the acknowledgement flag
    timers,             \* pending setTimeout callbacks: seconds left, oldest first
    presets,            \* the preset registry the component reads
    lastOp              \* the last handler called, its arguments and how it ended

session == <<selectedTemplate, fieldValues, output>>
vars == <<selectedTemplate, fieldValues, fieldValuesRef, output, copied, timers,
          presets, lastOp>>

\* setTimeout(..., 2000), in seconds
ResetDelay == 2

\* const template = TEMPLATES[selectedTemplate]; rendering the component reads
\* template.fields, which throws when the key is not in TEMPLATES: the
\* component is then gone and no handler can be called
Mounted == selectedTemplate \in DOMAIN TEMPLATES

\* the template of the first render, kept by a handler that is never made
\* again
template_firstRender == TEMPLATES["pyfunction_simple"]

template == TEMPLATES[selectedTemplate]

\* what the <pre> element shows
Displayed == IF output # "" THEN output ELSE template.template

Op(op, arg, value, error) ==
    [op |-> op, arg |-> arg, value |-> value, error |-> error]

(***************************************************************************)
(* Inputs of the handlers.  "broken" is a key of the fixture registry      *)
(* below and of no shipped preset.                                         *)
(***************************************************************************)
TemplateKeyInputs == DOMAIN TEMPLATES \cup {"does_not_exist"}
PresetKeyInputs == DOMAIN PRESETS \cup {"broken", "no_such_preset"}
FieldNameInputs == {"fn_name", "description", "default_precision"}
FieldValueInputs ==
    {"", "{body}", "<fn_name>", "$'", "description {descriptions}"}

\* the smaller inputs of the specification that adds copy and its timers
CopyTemplateKeyInputs == {"suffix_lookup", "module_registration"}
CopyPresetKeyInputs == {"ordinal"}
CopyFieldNameInputs == {"fn_name"}
CopyFieldValueInputs == {"", "x"}

\* the body of generateOutput: one replace per declared field, in order
RECURSIVE SubstituteFields(_, _, _, _)
SubstituteFields(result, fields, values, i) ==
    IF i > Len(fields) THEN result
    ELSE SubstituteFields(
             ReplaceAll(result, Token(fields[i]), ValueOrMarker(values, fields[i])),
             fields, values, i + 1)

\* generateOutput with result declared outside the function: a call goes on
\* from the text the previous call left
generateOutput_keepsResult(tpl, values) ==
    SubstituteFields(IF output = "" THEN tpl.template ELSE output,
                     tpl.fields, values, 1)

\* generateOutput(values), called in a render whose template is tpl
generateOutput(tpl, values) == SubstituteFields(tpl.template, tpl.fields, values, 1)

\* the loop of generateOutput run on the state fieldValues of the render that
\* made the handler, not on the values of the preset
PresetFields_staleValues(result, fields, values, i) ==
    SubstituteFields(result, fields, fieldValues, i)

\* the loop of loadPreset with a pattern that lacks the g flag
RECURSIVE PresetFields_withoutGlobalFlag(_, _, _, _)
PresetFields_withoutGlobalFlag(result, fields, values, i) ==
    IF i > Len(fields) THEN result
    ELSE PresetFields_withoutGlobalFlag(
             ReplaceAll_firstMatchOnly(result, Token(fields[i]),
                                       ValueOrMarker(values, fields[i])),
             fields, values, i + 1)

\* the loop written inline in loadPreset
RECURSIVE PresetFields(_, _, _, _)
PresetFields(result, fields, values, i) ==
    IF i > Len(fields) THEN result
    ELSE PresetFields(
             ReplaceAll(result, Token(fields[i]), ValueOrMarker(values, fields[i])),
             fields, values, i + 1)

Init ==
    /\ selectedTemplate = "pyfunction_simple"
    /\ fieldValues = EmptyValues
    /\ fieldValuesRef = "own"
    /\ output = ""
    /\ copied = FALSE
    /\ timers = <<>>
    /\ presets = PRESETS
    /\ lastOp = Op("init", "", "", "none")

\* handleFieldChange writing into the object fieldValues refers to, which
\* after a preset load is the values object of the registry
handleFieldChange_inPlace(field, value) ==
    LET newValues == [f \in DOMAIN fieldValues \cup {field} |->
                         IF f = field THEN value ELSE fieldValues[f]]
    IN  /\ Mounted
        /\ field \in DOMAIN fieldValues \/ Cardinality(DOMAIN fieldValues) < MaxFields
        /\ fieldValues' = newValues
        /\ fieldValuesRef' = fieldValuesRef
        /\ presets' = IF fieldValuesRef \in DOMAIN presets
                      THEN [presets EXCEPT ![fieldValuesRef].values = newValues]
                      ELSE presets
        /\ output' = generateOutput(template, newValues)
        /\ selectedTemplate' = selectedTemplate
        /\ lastOp' = Op("editField", field, value, "none")
        /\ UNCHANGED <<copied, timers>>

\* handleFieldChange without the spread of fieldValues: the new mapping
\* holds the edited field only
handleFieldChange_dropsOthers(field, value) ==
    LET newValues == [f \in {field} |-> value]
    IN  /\ Mounted
        /\ field \in DOMAIN fieldValues \/ Cardinality(DOMAIN fieldValues) < MaxFields
        /\ fieldValues' = newValues
        /\ fieldValuesRef' = "own"
        /\ output' = generateOutput(template, newValues)
        /\ selectedTemplate' = selectedTemplate
        /\ lastOp' = Op("editField", field, value, "none")
        /\ UNCHANGED <<copied, timers, presets>>

handleFieldChange(field, value) ==
    LET newValues == [f \in DOMAIN fieldValues \cup {field} |->
                         IF f = field THEN value ELSE fieldValues[f]]
    IN  /\ Mounted
        /\ field \in DOMAIN fieldValues \/ Cardinality(DOMAIN fieldValues) < MaxFields
        /\ fieldValues' = newValues
        /\ fieldValuesRef' = "own"
        /\ output' = generateOutput(template, newValues)
        /\ selectedTemplate' = selectedTemplate
        /\ lastOp' = Op("editField", field, value, "none")
        /\ UNCHANGED <<copied, timers, presets>>

\* loadPreset without its call of setFieldValues
loadPreset_keepsFieldValues(presetName) ==
    /\ Mounted
    /\ IF presetName \notin DOMAIN presets
       THEN /\ lastOp' = Op("loadPreset", presetName, "", "TypeError")
            /\ UNCHANGED <<session, fieldValuesRef>>
       ELSE LET preset == presets[presetName] IN
            /\ selectedTemplate' = preset.template
            /\ fieldValues' = fieldValues
            /\ fieldValuesRef' = fieldValuesRef
            /\ IF preset.template \in DOMAIN TEMPLATES
               THEN /\ output' = PresetFields(TEMPLATES[preset.template].template,
                                              TEMPLATES[preset.template].fields,
                                              preset.values, 1)
                    /\ lastOp' = Op("loadPreset", presetName, "", "none")
               ELSE /\ output' = output
                    /\ lastOp' = Op("loadPreset", presetName, "", "TypeError")
    /\ UNCHANGED <<copied, timers, presets>>

\* loadPreset calling the loop of the render that made the handler, whose
\* template is the one selected before the load
loadPreset_rendersActiveTemplate(presetName) ==
    /\ Mounted
    /\ IF presetName \notin DOMAIN presets
       THEN /\ lastOp' = Op("loadPreset", presetName, "", "TypeError")
            /\ UNCHANGED <<session, fieldValuesRef>>
       ELSE LET preset == presets[presetName] IN
            /\ selectedTemplate' = preset.template
            /\ fieldValues' = preset.values
            /\ fieldValuesRef' = presetName
            /\ output' = generateOutput(template, preset.values)
            /\ lastOp' = Op("loadPreset", presetName, "", "none")
    /\ UNCHANGED <<copied, timers, presets>>

\* loadPreset laying the preset's values over the current ones
loadPreset_mergesValues(presetName) ==
    /\ Mounted
    /\ IF presetName \notin DOMAIN presets
       THEN /\ lastOp' = Op("loadPreset", presetName, "", "TypeError")
            /\ UNCHANGED <<session, fieldValuesRef>>
       ELSE LET preset == presets[presetName] IN
            /\ selectedTemplate' = preset.template
            /\ fieldValues' = [f \in DOMAIN fieldValues \cup DOMAIN preset.values |->
                                  IF f \in DOMAIN preset.values
                                  THEN preset.values[f] ELSE fieldValues[f]]
            /\ fieldValuesRef' = "own"
            /\ IF preset.template \in DOMAIN TEMPLATES
               THEN /\ output' = PresetFields(TEMPLATES[preset.template].template,
                                              TEMPLATES[preset.template].fields,
                                              preset.values, 1)
                    /\ lastOp' = Op("loadPreset", presetName, "", "none")
               ELSE /\ output' = output
                    /\ lastOp' = Op("loadPreset", presetName, "", "TypeError")
    /\ UNCHANGED <<copied, timers, presets>>

loadPreset(presetName) ==
    /\ Mounted
    /\ IF presetName \notin DOMAIN presets
       THEN \* preset is undefined and preset.template throws
            /\ lastOp' = Op("loadPreset", presetName, "", "TypeError")
            /\ UNCHANGED <<session, fieldValuesRef>>
       ELSE LET preset == presets[presetName] IN
            /\ selectedTemplate' = preset.template
            /\ fieldValues' = preset.values
            /\ fieldValuesRef' = presetName
            /\ IF preset.template \in DOMAIN TEMPLATES
               THEN /\ output' = PresetFields(TEMPLATES[preset.template].template,
                                              TEMPLATES[preset.template].fields,
                                              preset.values, 1)
                    /\ lastOp' = Op("loadPreset", presetName, "", "none")
               ELSE \* TEMPLATES[preset.template] is undefined: reading
                    \* .template throws after the two setters were called
                    /\ output' = output
                    /\ lastOp' = Op("loadPreset", presetName, "", "TypeError")
    /\ UNCHANGED <<copied, timers, presets>>

\* how the promise returned by navigator.clipboard.writeText settles; the
\* handler neither awaits it nor attaches a callback to it
ClipboardOutcomes == {"resolved", "rejected"}

\* copyToClipboard with a catch callback that empties the output when the
\* write is rejected
copyToClipboard_clearsOutputOnFailure ==
    /\ Mounted
    /\ Len(timers) < MaxPending
    /\ copied' = TRUE
    /\ timers' = Append(timers, ResetDelay)
    /\ \E settled \in ClipboardOutcomes :
          /\ lastOp' = Op("copy", settled, output, "none")
          /\ output' = IF settled = "rejected" THEN "" ELSE output
    /\ UNCHANGED <<selectedTemplate, fieldValues, fieldValuesRef, presets>>

\* lastOp.arg of a copy is the way the write settled, lastOp.value the text
\* handed to writeText
copyToClipboard ==
    /\ Mounted
    /\ Len(timers) < MaxPending
    /\ copied' = TRUE
    /\ timers' = Append(timers, ResetDelay)
    /\ \E settled \in ClipboardOutcomes :
          lastOp' = Op("copy", settled, output, "none")
    /\ UNCHANGED <<selectedTemplate, fieldValues, fieldValuesRef, output, presets>>

\* handleTemplateChange without its call of setFieldValues({})
handleTemplateChange_keepsValues(newTemplate) ==
    /\ Mounted
    /\ selectedTemplate' = newTemplate
    /\ fieldValues' = fieldValues
    /\ fieldValuesRef' = fieldValuesRef
    /\ IF newTemplate \in DOMAIN TEMPLATES
       THEN /\ output' = TEMPLATES[newTemplate].template
            /\ lastOp' = Op("selectTemplate", newTemplate, "", "none")
       ELSE /\ output' = output
            /\ lastOp' = Op("selectTemplate", newTemplate, "", "TypeError")
    /\ UNCHANGED <<copied, timers, presets>>

\* handleTemplateChange that also takes back the acknowledgement
handleTemplateChange_resetsCopied(newTemplate) ==
    /\ Mounted
    /\ selectedTemplate' = newTemplate
    /\ fieldValues' = EmptyValues
    /\ fieldValuesRef' = "own"
    /\ copied' = FALSE
    /\ IF newTemplate \in DOMAIN TEMPLATES
       THEN /\ output' = TEMPLATES[newTemplate].template
            /\ lastOp' = Op("selectTemplate", newTemplate, "", "none")
       ELSE /\ output' = output
            /\ lastOp' = Op("selectTemplate", newTemplate, "", "TypeError")
    /\ UNCHANGED <<timers, presets>>

handleTemplateChange(newTemplate) ==
    /\ Mounted
    /\ selectedTemplate' = newTemplate
    /\ fieldValues' = EmptyValues
    /\ fieldValuesRef' = "own"
    /\ IF newTemplate \in DOMAIN TEMPLATES
       THEN /\ output' = TEMPLATES[newTemplate].template
            /\ lastOp' = Op("selectTemplate", newTemplate, "", "none")
       ELSE \* TEMPLATES[newTemplate] is undefined: reading .template throws
            \* after the two setters were called
            /\ output' = output
            /\ lastOp' = Op("selectTemplate", newTemplate, "", "TypeError")
    /\ UNCHANGED <<copied, timers, presets>>

\* one second passes; a timer that is due fires before time moves on
Tick ==
    /\ timers # <<>>
    /\ \A n \in 1..Len(timers) : timers[n] > 0
    /\ timers' = [n \in 1..Len(timers) |-> timers[n] - 1]
    /\ UNCHANGED <<selectedTemplate, fieldValues, fieldValuesRef, output, copied,
                   presets, lastOp>>

\* a callback that leaves the flag as it is
TimerFire_keepsCopied ==
    /\ timers # <<>>
    /\ timers[1] = 0
    /\ copied' = copied
    /\ timers' = Tail(timers)
    /\ UNCHANGED <<selectedTemplate, fieldValues, fieldValuesRef, output, presets,
                   lastOp>>

\* () => setCopied(false)
TimerFire ==
    /\ timers # <<>>
    /\ timers[1] = 0
    /\ copied' = FALSE
    /\ timers' = Tail(timers)
    /\ UNCHANGED <<selectedTemplate, fieldValues, fieldValuesRef, output, presets,
                   lastOp>>

\* the session: template selection, field edits and preset loads
Next ==
    \/ \E k \in TemplateKeyInputs : handleTemplateChange(k)
    \/ \E f \in FieldNameInputs, v \in FieldValueInputs : handleFieldChange(f, v)
    \/ \E k \in PresetKeyInputs : loadPreset(k)

Spec == Init /\ [][Next]_vars

\* the session together with copy and the acknowledgement timers
NextCopy ==
    \/ \E k \in CopyTemplateKeyInputs : handleTemplateChange(k)
    \/ \E f \in CopyFieldNameInputs, v \in CopyFieldValueInputs : handleFieldChange(f, v)
    \/ \E k \in CopyPresetKeyInputs : loadPreset(k)
    \/ copyToClipboard
    \/ Tick
    \/ TimerFire

SpecCopy == Init /\ [][NextCopy]_vars

\* the same with the event loop at work: time goes on while a timer is
\* pending, and a timer that is due runs its callback
SpecCopyLive == SpecCopy /\ WF_vars(Tick) /\ WF_vars(TimerFire)

(***************************************************************************)
(* The session driven through the page alone: the select element offers    *)
(* the keys of TEMPLATES, the preset buttons the keys of PRESETS, and the   *)
(* form has one input per field of the active template.                    *)
(***************************************************************************)
\* Object.entries(TEMPLATES).map(... <option value={key}>)
InterfaceTemplateKeys == DOMAIN TEMPLATES

\* Object.keys(PRESETS).map(preset => <button onClick={() => loadPreset(preset)}>)
InterfacePresetKeys == DOMAIN presets

\* template.fields.map(field => <input onChange=...>): the inputs of the
\* form, of which the first MaxShownFields are typed into
InterfaceFieldInputs ==
    {template.fields[n] : n \in 1..Min({Len(template.fields), MaxShownFields})}

\* e.target.value: the text of the input after a keystroke, which may be
\* the text it had before
InterfaceValueInputs(field) ==
    {"x"} \cup (IF field \in DOMAIN fieldValues THEN {fieldValues[field]} ELSE {})

NextInterface ==
    \/ \E k \in InterfaceTemplateKeys : handleTemplateChange(k)
    \/ \E f \in InterfaceFieldInputs :
          \E v \in InterfaceValueInputs(f) : handleFieldChange(f, v)
    \/ \E k \in InterfacePresetKeys : loadPreset(k)
    \/ copyToClipboard
    \/ Tick
    \/ TimerFire

SpecInterface == Init /\ [][NextInterface]_vars

(***************************************************************************)
(* generateOutput as a function of the template and the values it is given, *)
(* applied to bodies that are not well formed and to an empty field list.   *)
(***************************************************************************)
RenderTemplates ==
    [unbalanced |->
        [template |-> "fn {fn_name( {{ } {body}",
         fields |-> <<"fn_name", "body">>],
     undeclared |->
        [template |-> "{greeting} {fn_name}: {unknown}}",
         fields |-> <<"fn_name">>],
     no_fields |->
        [template |-> "fn {fn_name}() {{ {body} }}",
         fields |-> <<>>],
     no_tokens |->
        [template |-> "} fn_name { body",
         fields |-> <<"fn_name", "body">>],
     two_fields |->
        [template |-> "a{fn_name}b{body}c{fn_name}d",
         fields |-> <<"fn_name", "body">>]]

RenderFieldNameInputs == {"fn_name", "body"}
RenderFieldValueInputs == {"", "x", "$'", "{body}"}

\* the mappings that give a value to some of the names
RenderValueInputs ==
    UNION {[D -> RenderFieldValueInputs] : D \in SUBSET RenderFieldNameInputs}

\* generateOutput(values) in a render whose template is RenderTemplates[k]
renderTemplate(k, values) ==
    /\ fieldValues' = values
    /\ fieldValuesRef' = "own"
    /\ output' = generateOutput(RenderTemplates[k], values)
    /\ lastOp' = Op("render", k, "", "none")
    /\ UNCHANGED <<selectedTemplate, copied, timers, presets>>

NextRender ==
    \E k \in DOMAIN RenderTemplates, values \in RenderValueInputs :
        renderTemplate(k, values)

SpecRender == Init /\ [][NextRender]_vars

\* the shipped registry and one more preset, whose template is in no registry
FixturePresets ==
    [k \in DOMAIN PRESETS \cup {"broken"} |->
        IF k = "broken"
        THEN [template |-> "missing_template", values |-> [fn_name |-> "x"]]
        ELSE PRESETS[k]]

InitFixture ==
    /\ selectedTemplate = "pyfunction_simple"
    /\ fieldValues = EmptyValues
    /\ fieldValuesRef = "own"
    /\ output = ""
    /\ copied = FALSE
    /\ timers = <<>>
    /\ presets = FixturePresets
    /\ lastOp = Op("init", "", "", "none")

\* the session over the fixture registry
SpecFixture == InitFixture /\ [][Next]_vars

(***************************************************************************)
(* The rendering the specification describes: one scan of the body, in     *)
(* which the token of a declared field becomes the field's value, or its   *)
(* marker, and every other character is copied.                            *)
(***************************************************************************)
Fields(tpl) == {tpl.fields[n] : n \in 1..Len(tpl.fields)}

TokenAt(body, field, p) ==
    /\ p + Len(field) + 1 <= Len(body)
    /\ SubSeq(body, p, p + Len(field) + 1) = "{" \o field \o "}"

NextToken(body, fieldSet, from) ==
    LET hits == {p \in from..Len(body) :
                    /\ SubSeq(body, p, p) = "{"
                    /\ \E f \in fieldSet : TokenAt(body, f, p)}
    IN  IF hits = {} THEN 0 ELSE Min(hits)

RECURSIVE SinglePass(_, _, _, _)
SinglePass(body, fieldSet, values, from) ==
    LET p == NextToken(body, fieldSet, from) IN
    IF p = 0 THEN SubSeq(body, from, Len(body))
    ELSE LET f == CHOOSE g \in fieldSet : TokenAt(body, g, p)
         IN  SubSeq(body, from, p - 1)
                 \o (IF f \in DOMAIN values /\ values[f] # ""
                     THEN values[f] ELSE "<" \o f \o ">")
                 \o SinglePass(body, fieldSet, values, p + Len(f) + 2)

SinglePassRender(tpl, values) == SinglePass(tpl.template, Fields(tpl), values, 1)

\* the output was produced by a substitution loop
Rendered == lastOp.op \in {"editField", "loadPreset"} /\ lastOp.error = "none"

\* every declared field has a non-empty value
Complete(tpl, values) ==
    \A f \in Fields(tpl) : f \in DOMAIN values /\ values[f] # ""

\* no declared field has a value
Unset(tpl, values) ==
    \A f \in Fields(tpl) : f \notin DOMAIN values \/ values[f] = ""

(***************************************************************************)
(* The claims.                                                             *)
(***************************************************************************)

\* C1: after a successful selectTemplate(key) every field value is empty and
\* the output equals render(TEMPLATES[key], {}): every placeholder of a
\* declared field is shown as its marker.
C1_SelectShowsMarkers ==
    (lastOp.op = "selectTemplate" /\ lastOp.error = "none")
        => /\ fieldValues = EmptyValues
           /\ output = generateOutput(TEMPLATES[lastOp.arg], EmptyValues)

\* C2: rendering is single-pass: when the value of a declared field holds the
\* token of a declared field, the token stays in the output as typed, so the
\* output is the one scan of the body with the values put in literally.
C2_SinglePass ==
    (/\ Rendered
     /\ \A f \in DOMAIN fieldValues : ~Contains(fieldValues[f], "$")
     /\ \E f \in Fields(template) \cap DOMAIN fieldValues :
            \E g \in Fields(template) : Contains(fieldValues[f], Token(g)))
        => output = SinglePassRender(template, fieldValues)

\* C3: while the two-second window of the most recent copy has not elapsed,
\* the flag copied is true: no reset of an earlier copy clears it.
C3_AckCoversLatestWindow ==
    (timers # <<>> /\ timers[Len(timers)] > 0) => copied = TRUE

\* C4: selectTemplate with a key that is not in the registry fails with
\* NotFoundError and leaves selected template, field values and output as
\* they were.
C4_UnknownTemplateNoEffect ==
    [][(lastOp'.op = "selectTemplate" /\ lastOp'.arg \notin DOMAIN TEMPLATES)
          => (lastOp'.error = "NotFoundError" /\ UNCHANGED session)]_vars

\* C5: editField with a name the active template does not declare fails with
\* InvalidFieldError and leaves the output and the field values as they were.
C5_UndeclaredFieldNoEffect ==
    [][(lastOp'.op = "editField" /\ lastOp'.arg \notin Fields(template))
          => (lastOp'.error = "InvalidFieldError"
                 /\ UNCHANGED <<fieldValues, output>>)]_vars

\* C6: after a successful loadPreset(k) the active template is the preset's,
\* every field it declares has exactly the preset's value (and none when the
\* preset omits it), and the output is the preset's values in the preset's
\* template: template, values and output change together.
C6_PresetLoadAtomic ==
    (lastOp.op = "loadPreset" /\ lastOp.error = "none")
        => LET preset == PRESETS[lastOp.arg]
               tpl == TEMPLATES[preset.template]
           IN  /\ selectedTemplate = preset.template
               /\ \A f \in Fields(tpl) :
                     IF f \in DOMAIN preset.values
                     THEN f \in DOMAIN fieldValues
                             /\ fieldValues[f] = preset.values[f]
                     ELSE f \notin DOMAIN fieldValues
               /\ output = SinglePassRender(tpl, preset.values)

C6_Witness ==
    /\ lastOp = Op("loadPreset", "ordinal", "", "none")
    /\ selectedTemplate = "pyfunction_simple"
    /\ fieldValues["fn_name"] = "ordinal"

\* C7: loadPreset with a key that is not in the preset registry fails with
\* NotFoundError and leaves selected template, field values and output as
\* they were.
C7_UnknownPresetNotFound ==
    [][(lastOp'.op = "loadPreset" /\ lastOp'.arg \notin DOMAIN presets)
          => (lastOp'.error = "NotFoundError" /\ UNCHANGED session)]_vars

C9_NoMarkerWhenComplete ==
    (Rendered /\ Complete(template, fieldValues))
        => \A f \in Fields(template) : ~Contains(output, Marker(f))

\* C9 as amended: with one non-empty value per declared field, none of the
\* values holding the character "<", the output holds the marker of no
\* declared field.
C9_NoMarkerWhenCompleteWithoutAngle ==
    (/\ Rendered
     /\ Complete(template, fieldValues)
     /\ \A f \in Fields(template) : ~Contains(fieldValues[f], "<"))
        => \A f \in Fields(template) : ~Contains(output, Marker(f))

C9_Witness ==
    /\ lastOp = Op("editField", "fn_name", "{body}", "none")
    /\ selectedTemplate = "pyfunction_simple"
    /\ Complete(template, fieldValues)
    /\ \A f \in Fields(template) : ~Contains(fieldValues[f], "<")

\* C10: with no field set, the output of the substitution loop is the body
\* with the token of every declared field replaced by its marker and every
\* other character (doubled braces and tokens of undeclared names included)
\* unchanged and in place.
C10_UnsetRenderIsMarkedBody ==
    (lastOp.op = "editField" /\ Unset(template, fieldValues))
        => output = SinglePassRender(template, EmptyValues)

C10_Witness ==
    /\ lastOp = Op("editField", "fn_name", "", "none")
    /\ selectedTemplate = "benchmark_case"
    /\ Contains(output, "{{py_result}}")
    /\ Contains(output, "humanize_rs.<fn_name>(<test_value>)")

\* no value holds the token of a declared field
NoDeclaredToken(tpl, values) ==
    \A f \in DOMAIN values : \A g \in Fields(tpl) : ~Contains(values[f], Token(g))

\* no value holds a dollar sign
NoDollar(values) == \A f \in DOMAIN values : ~Contains(values[f], "$")

\* no value holds an opening brace
NoBrace(values) == \A f \in DOMAIN values : ~Contains(values[f], "{")

\* C11: every occurrence of the token of a declared field with a non-empty
\* value is replaced by exactly that value, character for character, a
\* dollar sign and what follows it included: the output is the one scan of
\* the body with the values put in as typed.
C11_ValuesInsertedAsTyped ==
    (Rendered /\ NoDeclaredToken(template, fieldValues))
        => output = SinglePassRender(template, fieldValues)

\* the string generateOutput holds when it comes to the n-th declared field
PassInput(tpl, values, n) ==
    SubstituteFields(tpl.template, SubSeq(tpl.fields, 1, n - 1), values, 1)

\* the texts generateOutput puts in place of the tokens of the n-th field
Expansions(tpl, values, n) ==
    LET str == PassInput(tpl, values, n)
        pat == Token(tpl.fields[n])
    IN  {GetSubstitution(pat, str, p, ValueOrMarker(values, tpl.fields[n]), 1) :
            p \in Matches(str, pat)}

\* C12: editField(x, v) leaves the stored value of every other declared
\* field y as it was, and every occurrence of the token of y in the body is
\* rendered as the same text after the edit as before it.  (Stated for
\* values without a brace, so that the tokens of y are those of the body.)
C12_FieldIsolation ==
    [][(/\ lastOp'.op = "editField"
        /\ lastOp'.arg \in Fields(template)
        /\ NoBrace(fieldValues) /\ NoBrace(fieldValues'))
          => \A n \in 1..Len(template.fields) :
                LET y == template.fields[n] IN
                y # lastOp'.arg
                    => /\ (y \in DOMAIN fieldValues') = (y \in DOMAIN fieldValues)
                       /\ y \in DOMAIN fieldValues => fieldValues'[y] = fieldValues[y]
                       /\ Expansions(template, fieldValues', n)
                              = Expansions(template, fieldValues, n)]_vars

\* C13: in every state, the initial one included, the stored output equals
\* render(TEMPLATES[selectedTemplate], fieldValues).
C13_OutputIsRenderOfState ==
    Mounted => output = generateOutput(template, fieldValues)

\* C14: whenever pyfunction_simple is active and none of its fields has a
\* value, the text shown keeps "#[pyfunction]" and shows the marker of
\* fn_name at both places where the body has the token of fn_name.
C14_SimpleTemplateUnsetShowsMarkers ==
    (selectedTemplate = "pyfunction_simple" /\ Unset(template, fieldValues))
        => /\ Contains(Displayed, "#[pyfunction]")
           /\ Contains(Displayed, "humanize.<fn_name>(")
           /\ Contains(Displayed, "fn <fn_name>(value: ")
           /\ ~Contains(Displayed, "{fn_name}")

\* C15: the text copy hands to the clipboard is the text shown to the user as
\* the generated output, in every state, the initial one included.
C15_CopiesWhatIsShown ==
    lastOp.op = "copy" => lastOp.value = Displayed

NameChars ==
    {"a", "b", "c", "d", "e", "f", "g", "h", "i", "j", "k", "l", "m", "n", "o",
     "p", "q", "r", "s", "t", "u", "v", "w", "x", "y", "z", "_",
     "0", "1", "2", "3", "4", "5", "6", "7", "8", "9"}

IsName(str) ==
    Len(str) > 0 /\ \A n \in 1..Len(str) : SubSeq(str, n, n) \in NameChars

\* the names that occur in body as a token: a name in braces
TokenNames(body) ==
    LET opens == {p \in 1..Len(body) : SubSeq(body, p, p) = "{"}
        closes == {q \in 1..Len(body) : SubSeq(body, q, q) = "}"}
    IN  {SubSeq(body, pq[1] + 1, pq[2] - 1) :
            pq \in {x \in opens \X closes :
                       x[1] < x[2] /\ IsName(SubSeq(body, x[1] + 1, x[2] - 1))}}

\* the names that occur in body as a token that does not itself stand in a
\* second pair of braces
SingleBraceTokenNames(body) ==
    LET opens == {p \in 1..Len(body) : SubSeq(body, p, p) = "{"}
        closes == {q \in 1..Len(body) : SubSeq(body, q, q) = "}"}
    IN  {SubSeq(body, pq[1] + 1, pq[2] - 1) :
            pq \in {x \in opens \X closes :
                       /\ x[1] < x[2]
                       /\ IsName(SubSeq(body, x[1] + 1, x[2] - 1))
                       /\ ~(/\ SubSeq(body, x[1] - 1, x[1] - 1) = "{"
                            /\ SubSeq(body, x[2] + 1, x[2] + 1) = "}")}}

\* C16 as stated: every name that occurs as a token in the body of a
\* template is an entry of its field list, and the field list has no
\* duplicate.
C16_TokensAreDeclared ==
    Mounted => /\ TokenNames(template.template) \subseteq Fields(template)
               /\ Cardinality(Fields(template)) = Len(template.fields)

\* C16 as amended: every name that occurs in the body of a template as a
\* token outside doubled braces is an entry of its field list, and the field
\* list has no duplicate.
C16_SingleBraceTokensAreDeclared ==
    Mounted => /\ SingleBraceTokenNames(template.template) \subseteq Fields(template)
               /\ Cardinality(Fields(template)) = Len(template.fields)

C16_Witness ==
    /\ selectedTemplate = "benchmark_case"
    /\ SingleBraceTokenNames(template.template) = {"fn_name", "test_value"}
    /\ TokenNames(template.template)
           = {"fn_name", "test_value", "py_result", "rs_result"}

\* C17: every preset names a template of the registry and gives a non-empty
\* value to every field the template declares, so the output of a preset
\* load holds the marker of no declared field.
C17_PresetsCompleteNoMarker ==
    /\ \A k \in DOMAIN presets :
          /\ presets[k].template \in DOMAIN TEMPLATES
          /\ Complete(TEMPLATES[presets[k].template], presets[k].values)
    /\ (lastOp.op = "loadPreset" /\ lastOp.error = "none")
          => \A f \in Fields(template) : ~Contains(output, Marker(f))

C17_Witness ==
    /\ lastOp = Op("loadPreset", "intcomma", "", "none")
    /\ selectedTemplate = "pyfunction_with_options"
    /\ Contains(output, "fn intcomma(value: i64, ndigits: Option<i32>) -> String {{")

\* C18: loading preset ordinal makes pyfunction_simple the active template
\* and gives an output that holds "fn ordinal(value: i64) -> String" and no
\* marker of fn_name.
C18_OrdinalPreset ==
    lastOp = Op("loadPreset", "ordinal", "", "none")
        => /\ selectedTemplate = "pyfunction_simple"
           /\ Contains(output, "fn ordinal(value: i64) -> String")
           /\ ~Contains(output, "<fn_name>")

C18_Witness ==
    /\ lastOp = Op("loadPreset", "ordinal", "", "none")
    /\ Contains(output, "/// humanize.ordinal(3) -> \"3rd\"\n#[pyfunction]\n")

\* C19: the preset registry is never changed, also by a field edit made
\* while fieldValues is the values object of a preset, so a preset load
\* gives the values and the output of the registry as shipped.
C19_RegistryNeverMutated ==
    /\ presets = PRESETS
    /\ (lastOp.op = "loadPreset" /\ lastOp.error = "none")
          => LET preset == PRESETS[lastOp.arg] IN
             /\ fieldValues = preset.values
             /\ output = SinglePassRender(TEMPLATES[preset.template], preset.values)

C19_Witness ==
    /\ lastOp = Op("editField", "fn_name", "<fn_name>", "none")
    /\ selectedTemplate = "pyfunction_simple"
    /\ DOMAIN fieldValues = DOMAIN PRESETS["ordinal"].values
    /\ fieldValues["description"] = PRESETS["ordinal"].values["description"]
    /\ presets = PRESETS

\* C20: the substitution of a field replaces its token only: the bare name of
\* a declared field, and a token whose name begins with the name of a
\* declared field, stay as they are.  (For values with no token of a
\* declared field and no dollar sign, the output is the one scan of the
\* body that replaces exact tokens only.)
C20_ExactTokenOnly ==
    (Rendered /\ NoDeclaredToken(template, fieldValues) /\ NoDollar(fieldValues))
        => output = SinglePassRender(template, fieldValues)

C20_Witness ==
    /\ lastOp.op = "editField"
    /\ selectedTemplate = "pyfunction_simple"
    /\ fieldValues = [fn_name |-> "description {descriptions}",
                      description |-> "<fn_name>"]
    /\ Contains(output, "/// <fn_name>\n/// humanize.description {descriptions}(")

C22_AckSetThenReset ==
    /\ [][Len(timers') > Len(timers) => copied' = TRUE]_vars
    /\ [](timers = <<>> => copied = FALSE)
    /\ (copied = TRUE ~> copied = FALSE)

C22_Witness ==
    /\ lastOp.op = "copy"
    /\ lastOp.arg = "resolved"
    /\ copied = FALSE
    /\ timers = <<>>

\* C23: at most one acknowledgement reset is pending at any time.
C23_AtMostOneResetPending == Len(timers) <= 1

C25_SelectedTemplateRegistered ==
    /\ lastOp.op = "init"
          => selectedTemplate = "pyfunction_simple" /\ fieldValues = EmptyValues
    /\ selectedTemplate \in DOMAIN TEMPLATES

\* the text of the body before its first token of a declared field, and
\* the text after its last one
BodyHead(tpl) ==
    LET p == NextToken(tpl.template, Fields(tpl), 1) IN
    IF p = 0 THEN tpl.template ELSE SubSeq(tpl.template, 1, p - 1)

BodyTail(tpl) ==
    LET ends == UNION {{p + Len(f) + 2 : p \in {q \in 1..Len(tpl.template) :
                                                    TokenAt(tpl.template, f, q)}} :
                       f \in Fields(tpl)}
        last == IF ends = {} THEN 1 ELSE CHOOSE e \in ends : \A d \in ends : d <= e
    IN  SubSeq(tpl.template, last, Len(tpl.template))

StartsWith(str, head) ==
    Len(head) <= Len(str) /\ SubSeq(str, 1, Len(head)) = head

EndsWith(str, tail) ==
    Len(tail) <= Len(str)
        /\ SubSeq(str, Len(str) - Len(tail) + 1, Len(str)) = tail

\* C26: for any body, with unbalanced braces or tokens of undeclared names,
\* render ends without an error and copies the text that is no token of a
\* declared field: a body without such a token, and any body rendered
\* with an empty field list, comes out unchanged whatever the values are;
\* the text before the first and after the last token is kept; and for
\* values with no dollar sign and no token of a declared field the output
\* is the one scan of the body that replaces the declared tokens only.
C26_MalformedBodyCopiedThrough ==
    lastOp.op = "render"
        => LET tpl == RenderTemplates[lastOp.arg] IN
           /\ lastOp.error = "none"
           /\ tpl.fields = <<>> => output = tpl.template
           /\ NextToken(tpl.template, Fields(tpl), 1) = 0 => output = tpl.template
           /\ StartsWith(output, BodyHead(tpl))
           /\ EndsWith(output, BodyTail(tpl))
           /\ (NoDollar(fieldValues) /\ NoDeclaredToken(tpl, fieldValues))
                 => output = SinglePassRender(tpl, fieldValues)

C26_Witness ==
    /\ lastOp = Op("render", "unbalanced", "", "none")
    /\ fieldValues = [body |-> "x"]
    /\ output = "fn {fn_name( {{ } x"

\* C27: a field whose value is the empty string renders like a field with
\* no entry: after an edit that sets field x to "", the output is the render
\* of the active template with the entry of x taken out of the mapping, and
\* when x is declared every token of x is shown as its marker.
C27_EmptyValueRendersAsUnset ==
    (lastOp.op = "editField" /\ lastOp.value = "")
        => LET x == lastOp.arg
               tpl == TEMPLATES[selectedTemplate]
               without == [f \in DOMAIN fieldValues \ {x} |-> fieldValues[f]]
           IN  /\ x \in DOMAIN fieldValues
               /\ fieldValues[x] = ""
               /\ output = SubstituteFields(tpl.template, tpl.fields, without, 1)
               /\ x \in Fields(tpl)
                     => /\ ~Contains(output, "{" \o x \o "}")
                        /\ Contains(tpl.template, "{" \o x \o "}")
                              => Contains(output, "<" \o x \o ">")

\* fn_name, which preset ordinal had set, edited to the empty string
C27_Witness ==
    /\ lastOp = Op("editField", "fn_name", "", "none")
    /\ selectedTemplate = "pyfunction_simple"
    /\ DOMAIN fieldValues = DOMAIN PRESETS["ordinal"].values
    /\ fieldValues["description"] = "Convert a number to its ordinal form"
    /\ Contains(output, "/// humanize.<fn_name>(3) -> \"3rd\"\n")
    /\ Contains(output, "fn <fn_name>(value: i64) -> String")

\* the mapping values with field set to value
EditValues(values, field, value) ==
    [f \in DOMAIN values \cup {field} |-> IF f = field THEN value ELSE values[f]]

\* C28: no edit is lost: an edit of field x to v leaves x = v, whether or
\* not x had a value, and every other entry as it was, and the output is
\* the render of the resulting mapping; when the edit follows an edit of
\* another field, the mapping is the one that the two edits give in the
\* other order.
C28_NoEditLost ==
    [][lastOp'.op = "editField"
          => LET x == lastOp'.arg
                 v == lastOp'.value
                 tpl == TEMPLATES[selectedTemplate']
             IN  /\ selectedTemplate' = selectedTemplate
                 /\ DOMAIN fieldValues' = DOMAIN fieldValues \cup {x}
                 /\ fieldValues'[x] = v
                 /\ \A y \in DOMAIN fieldValues \ {x} :
                       fieldValues'[y] = fieldValues[y]
                 /\ output' = SubstituteFields(tpl.template, tpl.fields,
                                               fieldValues', 1)
                 /\ (lastOp.op = "editField" /\ lastOp.arg # x)
                       => fieldValues'
                            = EditValues(EditValues(fieldValues, x, v),
                                         lastOp.arg, lastOp.value)]_vars

\* two fields edited one after the other, both values kept
C28_Witness ==
    /\ lastOp = Op("editField", "description", "description {descriptions}", "none")
    /\ selectedTemplate = "pyfunction_simple"
    /\ fieldValuesRef = "own"
    /\ fieldValues = [fn_name |-> "<fn_name>",
                      description |-> "description {descriptions}"]
    /\ Contains(output, "/// description {descriptions}\n/// humanize.<fn_name>(")

\* C29: an edit that follows a template selection or a preset load is
\* rendered with the body and the field list of the template which that
\* selection or load made active.
C29_EditRendersNewTemplate ==
    [][(/\ lastOp'.op = "editField"
        /\ lastOp.op \in {"selectTemplate", "loadPreset"}
        /\ lastOp.error = "none")
          => LET key == IF lastOp.op = "selectTemplate"
                        THEN lastOp.arg ELSE PRESETS[lastOp.arg].template
                 tpl == TEMPLATES[key]
             IN  /\ selectedTemplate' = key
                 /\ output' = SubstituteFields(tpl.template, tpl.fields,
                                               fieldValues', 1)]_vars

\* module_registration selected, then its field fn_name edited
C29_Witness ==
    /\ lastOp = Op("editField", "fn_name", "description {descriptions}", "none")
    /\ selectedTemplate = "module_registration"
    /\ fieldValues = [fn_name |-> "description {descriptions}"]
    /\ output = "m.add_function(wrap_pyfunction!(description {descriptions}, m)?)?;"

\* the session that a load of preset k gives, from the registries alone
PresetState(k) ==
    LET preset == PRESETS[k]
        tpl == TEMPLATES[preset.template]
    IN  <<preset.template, preset.values,
          SubstituteFields(tpl.template, tpl.fields, preset.values, 1)>>

\* C30: the selected template, the field values and the output after a
\* load of preset k are a function of k alone, whatever the state before
\* was: the mapping holds the entries of the preset and no other, so no
\* value of the previous selection survives, and a second load of the
\* same preset leaves the state of the first.
C30_PresetStateDependsOnKeyOnly ==
    (lastOp.op = "loadPreset" /\ lastOp.error = "none")
        => /\ session = PresetState(lastOp.arg)
           /\ DOMAIN fieldValues = DOMAIN PRESETS[lastOp.arg].values

C30_Witness ==
    /\ lastOp = Op("loadPreset", "naturalsize", "", "none")
    /\ selectedTemplate = "pyfunction_with_options"
    /\ fieldValuesRef = "naturalsize"
    /\ fieldValues["fn_name"] = "naturalsize"
    /\ Contains(output, "/// humanize.naturalsize(1048576) -> \"1.0 MB\"\n")

\* C31: a template selection, a field edit and a preset load leave the flag
\* copied and the pending resets as they were; the flag goes from false to
\* true only in a copy, which schedules a reset, and from true to false
\* only when the oldest pending reset, then due, fires.
C31_OnlyCopyAndResetTouchTheFlag ==
    [][/\ (\/ session' # session
           \/ (/\ lastOp' # lastOp
               /\ lastOp'.op \in {"selectTemplate", "editField", "loadPreset"}))
             => copied' = copied /\ timers' = timers
       /\ (copied = FALSE /\ copied' = TRUE)
             => /\ lastOp'.op = "copy"
                /\ timers' = Append(timers, ResetDelay)
                /\ session' = session
       /\ (copied = TRUE /\ copied' = FALSE)
             => /\ timers # <<>>
                /\ timers[1] = 0
                /\ timers' = Tail(timers)
                /\ lastOp' = lastOp
                /\ session' = session]_vars

\* a template selected while the acknowledgement of a copy is shown and
\* its reset is one second away
C31_Witness ==
    /\ lastOp = Op("selectTemplate", "benchmark_case", "", "none")
    /\ copied = TRUE
    /\ timers = <<1>>

\* C32: in every state reached through the page (selecting a template of
\* the registry, typing into an input of the form, loading a preset of the
\* registry, copying), the selected key is in the registry and every key of
\* the field-value mapping is a field that the active template declares;
\* the values of every preset have keys of its template only.
C32_KeysAreDeclaredFields ==
    /\ selectedTemplate \in DOMAIN TEMPLATES
    /\ DOMAIN fieldValues \subseteq Fields(TEMPLATES[selectedTemplate])
    /\ \A k \in DOMAIN PRESETS :
          DOMAIN PRESETS[k].values \subseteq Fields(TEMPLATES[PRESETS[k].template])

\* benchmark_case selected and its two fields typed, a copy acknowledged
C32_Witness ==
    /\ lastOp = Op("editField", "test_value", "x", "none")
    /\ selectedTemplate = "benchmark_case"
    /\ fieldValues = [fn_name |-> "x", test_value |-> "x"]
    /\ copied = TRUE

\* C33: the loop written inline in loadPreset gives what generateOutput
\* gives: the output stored by a load of preset k is generateOutput of the
\* preset's template and values, and an edit that follows the load and
\* enters the value a field already has leaves values and output as they
\* were.
C33_InlineLoopIsGenerateOutput ==
    /\ []((lastOp.op = "loadPreset" /\ lastOp.error = "none")
            => output = generateOutput(TEMPLATES[PRESETS[lastOp.arg].template],
                                       PRESETS[lastOp.arg].values))
    /\ [][(/\ lastOp.op = "loadPreset"
            /\ lastOp.error = "none"
            /\ lastOp'.op = "editField"
            /\ lastOp'.arg \in DOMAIN fieldValues
            /\ lastOp'.value = fieldValues[lastOp'.arg])
              => output' = output /\ fieldValues' = fieldValues]_vars

\* the value of fn_name entered again right after the load of preset ordinal
C33_Witness ==
    /\ lastOp = Op("editField", "fn_name", "ordinal", "none")
    /\ fieldValuesRef = "own"
    /\ fieldValues = PRESETS["ordinal"].values
    /\ output = PresetFields(TEMPLATES["pyfunction_simple"].template,
                             TEMPLATES["pyfunction_simple"].fields,
                             PRESETS["ordinal"].values, 1)

=============================================================================
